---- MODULE Spec2Model ----
(***************************************************************************)
(* Model of src/src/utils/graph/compareData.py: the pipeline               *)
(*   display_comparison(compare_data(get_data_and_labels(old),             *)
(*                                   get_data_and_labels(new)))            *)
(* over two datasets given as parallel arrays labels / data / activity.    *)
(*                                                                         *)
(* Python values.  A float is [type |-> "float", val |-> n], n an integer  *)
(* count of 1/One (One = 10^ndigits * 2^8), so that both the dyadic input  *)
(* values k/2^8 (exact binary floats, on which the float subtraction is    *)
(* exact) and the two-decimal results of round(x, 2) are integers.  None   *)
(* is [type |-> "NoneType", val |-> 0], and the floats inf, -inf and nan   *)
(* have the type "inf", "-inf" and "nan".  Floats are compared numerically *)
(* (0.0 = -0.0, as Python's == does).  A label is a str, modelled as the   *)
(* sequence of its code points, compared as Python compares str.           *)
(***************************************************************************)
EXTENDS Integers, Sequences, FiniteSets, TLC

VARIABLES
    old, new,            \* the two datasets
    pc,                  \* where the run of the module's last line stands
    old_data, new_data,  \* the lists get_data_and_labels returned
    order,               \* the order in which compare_data iterated all_labels
    differences,         \* the list compare_data returned
    printed,             \* what display_comparison has printed, a block per row
    exc,                 \* the exception that ended the run, or "none"
    data,                \* the variable data of the script that runs
    contributions,       \* getActivityFromTransactionHistory: contributions
    activities,          \* getActivityFromTransactionHistory: the dict activities
    activity_list,       \* getActivityFromTransactionHistory: activity_list
    file                 \* the content of the file the script writes

vars == <<old, new, pc, old_data, new_data, order, differences, printed, exc,
          data, contributions, activities, activity_list, file>>

\* The variables of compareData.py, and those of the two scripts under
\* src/utils/io/data.
pipeline == <<old, new, old_data, new_data, order, differences, printed>>
scripts == <<data, contributions, activities, activity_list, file>>

----------------------------------------------------------------------------
(* Bounds of the model and the input universe.                             *)

\* Size of the input: label slots of both datasets together, plus one for
\* every array cell by which a data or activity array misses or exceeds the
\* length of its labels array.
MaxRecords == 2

\* round(x, 2): the number of decimals kept.
ndigits == 2

\* The float 0.01 and the float 1.0 in model units.
Quantum == 2 ^ 8
One == (10 ^ ndigits) * Quantum

None == [type |-> "NoneType", val |-> 0]
Float(n) == [type |-> "float", val |-> n]

\* float("inf"), float("-inf") and float("nan").
PosInf == [type |-> "inf", val |-> 0]
NegInf == [type |-> "-inf", val |-> 0]
NaN == [type |-> "nan", val |-> 0]

\* math.isfinite(x)
IsFinite(x) == x.type = "float"

\* The exact binary float k / 2^8.
Dyadic(k) == Float(k * (10 ^ ndigits))

\* "1" < "10" < "9" as str, although 9 < 10 as numbers.
Labels == {<<49>>, <<49, 48>>, <<57>>}

\* -0.25, 0.12109375 and 0.125: 0.125 is an exact tie between 0.12 and 0.13,
\* 0.12109375 rounds to the same 0.12, and 0.125 - (-0.25) = 0.375 is a tie.
Values == {Dyadic(-64), Dyadic(31), Dyadic(32)}

\* 0.125 and the floats that are not finite, which json.loads reads from
\* Infinity, -Infinity and NaN.
ValuesWithNonFinite == {Dyadic(32), PosInf, NegInf, NaN}

\* 4605.79, and a float below it by less than half a hundredth, as
\* 4605.789999999994 is.
Stable == Float(460579 * Quantum)
NearStable == Float(460579 * Quantum - 1)
StabilityValues == {Stable, NearStable}

Nearpod == [name |-> "Nearpod", amount |-> Dyadic(31)]
Backblaze == [name |-> "Backblaze", amount |-> Dyadic(-64)]
Activities == {<<>>, <<Nearpod, Backblaze>>}

\* The dataset of the structural-validation scenario: six labels against five
\* values.
SixLabels == 6
FiveValues == 5

Abs(n) == IF n < 0 THEN -n ELSE n

Lengths(n) == {m \in (n - 1)..(n + 1) : m >= 0}

\* The datasets with n labels whose data array has nd cells and whose activity
\* array has na cells.
Datasets(n, nd, na) ==
    [labels : [1..n -> Labels], data : [1..nd -> Values], activity : [1..na -> Activities]]

\* The same, the values drawn from V.
DatasetsOver(V, n, nd, na) ==
    [labels : [1..n -> Labels], data : [1..nd -> V], activity : [1..na -> Activities]]

\* The datasets of SixLabels labels, each "1" or "9", with nd times the same
\* value and SixLabels times the same activity list.
SixLabelDatasets(nd) ==
    [labels : [1..SixLabels -> {<<49>>, <<57>>}],
     data : {[i \in 1..nd |-> v] : v \in Values},
     activity : {[i \in 1..SixLabels |-> a] : a \in Activities}]

----------------------------------------------------------------------------
(* Python primitives.                                                      *)

\* Variant of FSub: + written for -.
FSub_plus(a, b) == Float(a.val + b.val)

\* a - b on floats.
FSub(a, b) ==
    IF IsFinite(a) /\ IsFinite(b) THEN Float(a.val - b.val)
    ELSE IF a = NaN \/ b = NaN THEN NaN
    ELSE IF IsFinite(a) THEN (IF b = PosInf THEN NegInf ELSE PosInf)
    ELSE IF IsFinite(b) THEN a
    ELSE IF a = b THEN NaN
    ELSE a

\* Variant of Round2: floor(x * 100 + 0.5) / 100, which takes every tie upwards.
Round2_half_up(x) == Float(((2 * x.val + Quantum) \div (2 * Quantum)) * Quantum)

\* Variant of Round2: int(x * 100) / 100 for x >= 0, which cuts the digits off.
Round2_truncate(x) == Float((x.val \div Quantum) * Quantum)

\* round(x, 2) on a float: the nearest multiple of 0.01, an exact tie going to
\* the even multiple; inf, -inf and nan are returned as they are.
Round2(x) ==
    LET f == x.val \div Quantum
        r == x.val % Quantum
        up == \/ 2 * r > Quantum
              \/ 2 * r = Quantum /\ f % 2 = 1
    IN  IF IsFinite(x) THEN Float((IF up THEN f + 1 ELSE f) * Quantum) ELSE x

\* a < b on str.
RECURSIVE StrLess(_, _)
StrLess(a, b) ==
    IF a = <<>> THEN b # <<>>
    ELSE IF b = <<>> THEN FALSE
    ELSE IF Head(a) # Head(b) THEN Head(a) < Head(b)
    ELSE StrLess(Tail(a), Tail(b))

\* Variant of Insert: the order of reverse=True.
RECURSIVE Insert_descending(_, _)
Insert_descending(row, sorted) ==
    IF sorted = <<>> THEN <<row>>
    ELSE IF StrLess(Head(sorted).label, row.label) THEN <<row>> \o sorted
    ELSE <<Head(sorted)>> \o Insert_descending(row, Tail(sorted))

\* list.sort(key=lambda x: x["label"]): stable, ascending.  Insert puts row
\* behind every row of the sorted list whose label is not greater.
RECURSIVE Insert(_, _)
Insert(row, sorted) ==
    IF sorted = <<>> THEN <<row>>
    ELSE IF StrLess(row.label, Head(sorted).label) THEN <<row>> \o sorted
    ELSE <<Head(sorted)>> \o Insert(row, Tail(sorted))

\* Variant of SortByLabel: the sort left out.
SortByLabel_none(list) == list

RECURSIVE SortByLabel(_)
SortByLabel(list) ==
    IF list = <<>> THEN <<>>
    ELSE Insert(list[Len(list)], SortByLabel(SubSeq(list, 1, Len(list) - 1)))

\* Variant of Str: "{x or 0.0}" written for "{x}", so that None prints as 0.0.
Str_none_as_zero(x) ==
    IF x = None \/ ~IsFinite(x) THEN [text |-> "float", sign |-> 1, whole |-> 0, frac |-> 0]
    ELSE [text |-> "float",
          sign |-> IF x.val < 0 THEN -1 ELSE 1,
          whole |-> Abs(x.val) \div One,
          frac |-> Abs(x.val) % One]

\* str(x) of a float-or-None in the f-string: "None", "inf", "-inf", "nan",
\* or the decimal digits.
Str(x) ==
    IF x = None THEN [text |-> "None", sign |-> 0, whole |-> 0, frac |-> 0]
    ELSE IF ~IsFinite(x) THEN [text |-> x.type, sign |-> 0, whole |-> 0, frac |-> 0]
    ELSE [text |-> "float",
          sign |-> IF x.val < 0 THEN -1 ELSE 1,
          whole |-> Abs(x.val) \div One,
          frac |-> Abs(x.val) % One]

----------------------------------------------------------------------------
(* get_data_and_labels                                                     *)

\* dataset["datasets"][0]["data"][i] or [...]["activity"][i] raises IndexError
\* for some i in range(len(dataset["labels"])).
RaisesIndexError(dataset) ==
    \/ Len(dataset.data) < Len(dataset.labels)
    \/ Len(dataset.activity) < Len(dataset.labels)

\* Variant of get_data_and_labels: the value read at index 0 for every i.
get_data_and_labels_first_value(dataset) ==
    [i \in 1..Len(dataset.labels) |->
        [label |-> dataset.labels[i],
         value |-> dataset.data[1],
         activity |-> dataset.activity[i]]]

\* Variant of get_data_and_labels: range(1, len(labels)) written for
\* range(len(labels)), so that the record of index 0 is left out.
get_data_and_labels_skip_first(dataset) ==
    [i \in 1..(Len(dataset.labels) - 1) |->
        [label |-> dataset.labels[i + 1],
         value |-> dataset.data[i + 1],
         activity |-> dataset.activity[i + 1]]]

get_data_and_labels(dataset) ==
    [i \in 1..Len(dataset.labels) |->
        [label |-> dataset.labels[i],
         value |-> dataset.data[i],
         activity |-> dataset.activity[i]]]

----------------------------------------------------------------------------
(* compare_data                                                            *)

\* Variant of Lookup: an item whose label is already a key is skipped, so that
\* the first item of a label stays.
Lookup_first_wins(items) ==
    [l \in {items[i].label : i \in 1..Len(items)} |->
        LET first == CHOOSE i \in 1..Len(items) :
                         /\ items[i].label = l
                         /\ \A j \in 1..Len(items) : items[j].label = l => i <= j
        IN  [value |-> items[first].value, activity |-> items[first].activity]]

\* {item["label"]: {"value": ..., "activity": ...} for item in data}: a later
\* item replaces an earlier one of the same label.
Lookup(items) ==
    [l \in {items[i].label : i \in 1..Len(items)} |->
        LET last == CHOOSE i \in 1..Len(items) :
                        /\ items[i].label = l
                        /\ \A j \in 1..Len(items) : items[j].label = l => j <= i
        IN  [value |-> items[last].value, activity |-> items[last].activity]]

\* lookup.get(label) is not None
Has(lookup, label) == label \in DOMAIN lookup

\* Variant of all_labels: & written for |.
all_labels_intersection(old_lookup, new_lookup) == DOMAIN old_lookup \cap DOMAIN new_lookup

\* set(old_lookup.keys()) | set(new_lookup.keys())
all_labels(old_lookup, new_lookup) == DOMAIN old_lookup \cup DOMAIN new_lookup

\* Variant of RawDiff: the difference taken of the two values already rounded
\* to 2 decimals.
RawDiff_of_rounded(label, old_lookup, new_lookup) ==
    IF Has(old_lookup, label) /\ Has(new_lookup, label)
    THEN FSub(Round2(new_lookup[label].value), Round2(old_lookup[label].value))
    ELSE None

\* Variant of RawDiff: a missing side counts as 0.0.
RawDiff_missing_as_zero(label, old_lookup, new_lookup) ==
    FSub(IF Has(new_lookup, label) THEN new_lookup[label].value ELSE Float(0),
         IF Has(old_lookup, label) THEN old_lookup[label].value ELSE Float(0))

\* Variant of RawDiff: old minus new.
RawDiff_old_minus_new(label, old_lookup, new_lookup) ==
    IF Has(old_lookup, label) /\ Has(new_lookup, label)
    THEN FSub(old_lookup[label].value, new_lookup[label].value)
    ELSE None

\* diff before rounding: new minus old if both sides have the label.
RawDiff(label, old_lookup, new_lookup) ==
    IF Has(old_lookup, label) /\ Has(new_lookup, label)
    THEN FSub(new_lookup[label].value, old_lookup[label].value)
    ELSE None

\* Variant of SideValue: 0.0 reported for a missing side.
SideValue_zero_if_missing(lookup, label) ==
    IF Has(lookup, label) THEN Round2(lookup[label].value) ELSE Float(0)

\* round(x["value"], 2) if x is not None else None, for one side.
SideValue(lookup, label) ==
    IF Has(lookup, label) THEN Round2(lookup[label].value) ELSE None

\* Variant of SideActivity: the amounts of the entries rounded to 2 decimals
\* as the values are.
SideActivity_rounded(lookup, label) ==
    IF Has(lookup, label)
    THEN [k \in DOMAIN lookup[label].activity |->
              [name |-> lookup[label].activity[k].name,
               amount |-> Round2(lookup[label].activity[k].amount)]]
    ELSE <<>>

\* lookup.get(label)["activity"] if lookup.get(label) is not None else []
SideActivity(lookup, label) ==
    IF Has(lookup, label) THEN lookup[label].activity ELSE <<>>

\* Variant of Row: "if diff" written for "if diff is not None", so that a
\* diff of 0.0 is reported as None.
Row_falsy_diff(label, old_lookup, new_lookup) ==
    LET diff == RawDiff(label, old_lookup, new_lookup)
    IN  [label |-> label,
         old_value |-> SideValue(old_lookup, label),
         new_value |-> SideValue(new_lookup, label),
         diff |-> IF diff # None /\ diff.val # 0 THEN Round2(diff) ELSE None,
         old_activity |-> SideActivity(old_lookup, label),
         new_activity |-> SideActivity(new_lookup, label)]

\* Variant of Row: the diff appended as computed, round(diff, 2) left out.
Row_unrounded_diff(label, old_lookup, new_lookup) ==
    [label |-> label,
     old_value |-> SideValue(old_lookup, label),
     new_value |-> SideValue(new_lookup, label),
     diff |-> RawDiff(label, old_lookup, new_lookup),
     old_activity |-> SideActivity(old_lookup, label),
     new_activity |-> SideActivity(new_lookup, label)]

\* Variant of Row: a side that is missing given the activity list of the side
\* that is present.
Row_activity_fallback(label, old_lookup, new_lookup) ==
    LET diff == RawDiff(label, old_lookup, new_lookup)
    IN  [label |-> label,
         old_value |-> SideValue(old_lookup, label),
         new_value |-> SideValue(new_lookup, label),
         diff |-> IF diff # None THEN Round2(diff) ELSE None,
         old_activity |-> IF Has(old_lookup, label)
                          THEN SideActivity(old_lookup, label)
                          ELSE SideActivity(new_lookup, label),
         new_activity |-> IF Has(new_lookup, label)
                          THEN SideActivity(new_lookup, label)
                          ELSE SideActivity(old_lookup, label)]

\* The body of "for label in all_labels": the row appended for label.
Row(label, old_lookup, new_lookup) ==
    LET diff == RawDiff(label, old_lookup, new_lookup)
    IN  [label |-> label,
         old_value |-> SideValue(old_lookup, label),
         new_value |-> SideValue(new_lookup, label),
         diff |-> IF diff # None THEN Round2(diff) ELSE None,
         old_activity |-> SideActivity(old_lookup, label),
         new_activity |-> SideActivity(new_lookup, label)]

\* The orders in which a set of str can be iterated.
Orders(S) ==
    {o \in [1..Cardinality(S) -> S] : \A i, j \in 1..Cardinality(S) : o[i] = o[j] => i = j}

\* Variant of compare_data: all_labels built as the list of the keys of
\* old_lookup followed by the keys of new_lookup, not as the set of both.
compare_data_label_list(o_data, n_data, labels) ==
    LET InOld(l) == Has(Lookup(o_data), l)
        InNew(l) == Has(Lookup(n_data), l)
        list == SelectSeq(labels, InOld) \o SelectSeq(labels, InNew)
    IN  [i \in 1..Len(list) |-> Row(list[i], Lookup(o_data), Lookup(n_data))]

\* compare_data(old_data, new_data), its for loop taking the labels in the
\* order labels.
compare_data(o_data, n_data, labels) ==
    [i \in 1..Len(labels) |-> Row(labels[i], Lookup(o_data), Lookup(n_data))]

----------------------------------------------------------------------------
(* display_comparison                                                      *)

\* The four print calls of one iteration of "for diff in differences".
Block(diff) ==
    [label |-> diff.label,
     old_value |-> Str(diff.old_value),
     new_value |-> Str(diff.new_value),
     diff |-> Str(diff.diff),
     old_activity |-> diff.old_activity,
     new_activity |-> diff.new_activity]

\* Everything display_comparison(list) prints: a block per row of the sorted
\* list.
display_comparison(list) == [i \in 1..Len(list) |-> Block(SortByLabel(list)[i])]

----------------------------------------------------------------------------
(* The run of the module's last line.                                      *)

\* Nothing has run yet.
Start ==
    /\ pc = "get_old"
    /\ old_data = <<>>
    /\ new_data = <<>>
    /\ order = <<>>
    /\ differences = <<>>
    /\ printed = <<>>
    /\ exc = "none"
    /\ data = <<>>
    /\ contributions = <<>>
    /\ activities = <<>>
    /\ activity_list = <<>>
    /\ file = <<>>

Init ==
    /\ \E n1 \in 0..MaxRecords : \E n2 \in 0..(MaxRecords - n1) :
       \E d1 \in Lengths(n1), a1 \in Lengths(n1), d2 \in Lengths(n2), a2 \in Lengths(n2) :
          /\ n1 + n2 + Abs(d1 - n1) + Abs(a1 - n1) + Abs(d2 - n2) + Abs(a2 - n2) <= MaxRecords
          /\ old \in Datasets(n1, d1, a1)
          /\ new \in Datasets(n2, d2, a2)
    /\ Start

\* The runs on a dataset of SixLabels labels, with FiveValues or SixLabels
\* values, against an empty one.
InitSixLabels ==
    /\ \E nd \in {FiveValues, SixLabels} :
          \/ old \in SixLabelDatasets(nd) /\ new \in Datasets(0, 0, 0)
          \/ old \in Datasets(0, 0, 0) /\ new \in SixLabelDatasets(nd)
    /\ Start

\* The runs of Init, the values drawn from V.
InitOver(V) ==
    /\ \E n1 \in 0..MaxRecords : \E n2 \in 0..(MaxRecords - n1) :
       \E d1 \in Lengths(n1), a1 \in Lengths(n1), d2 \in Lengths(n2), a2 \in Lengths(n2) :
          /\ n1 + n2 + Abs(d1 - n1) + Abs(a1 - n1) + Abs(d2 - n2) + Abs(a2 - n2) <= MaxRecords
          /\ old \in DatasetsOver(V, n1, d1, a1)
          /\ new \in DatasetsOver(V, n2, d2, a2)
    /\ Start

InitNonFinite == InitOver(ValuesWithNonFinite)

InitStability == InitOver(StabilityValues)

\* get_data_and_labels(old), the first argument evaluated.
GetOld ==
    /\ pc = "get_old"
    /\ IF RaisesIndexError(old)
       THEN /\ exc' = "IndexError"
            /\ pc' = "raised"
            /\ UNCHANGED old_data
       ELSE /\ old_data' = get_data_and_labels(old)
            /\ pc' = "get_new"
            /\ UNCHANGED exc
    /\ UNCHANGED <<old, new, new_data, order, differences, printed>>
    /\ UNCHANGED scripts

\* get_data_and_labels(new), the second argument evaluated.
GetNew ==
    /\ pc = "get_new"
    /\ IF RaisesIndexError(new)
       THEN /\ exc' = "IndexError"
            /\ pc' = "raised"
            /\ UNCHANGED new_data
       ELSE /\ new_data' = get_data_and_labels(new)
            /\ pc' = "compare"
            /\ UNCHANGED exc
    /\ UNCHANGED <<old, new, old_data, order, differences, printed>>
    /\ UNCHANGED scripts

\* Variant of Compare: the values rounded in place, in the records of the two
\* lists passed in, before the rows are built from them.
Compare_rounding_in_place ==
    /\ pc = "compare"
    /\ old_data' = [i \in DOMAIN old_data |-> [old_data[i] EXCEPT !.value = Round2(@)]]
    /\ new_data' = [i \in DOMAIN new_data |-> [new_data[i] EXCEPT !.value = Round2(@)]]
    /\ \E labels \in Orders(all_labels(Lookup(old_data), Lookup(new_data))) :
          /\ order' = labels
          /\ differences' = compare_data(old_data', new_data', labels)
    /\ pc' = "display"
    /\ UNCHANGED <<old, new, printed, exc>>
    /\ UNCHANGED scripts

\* Variant of Compare: the for loop over all_labels started again when it
\* ends, so that compare_data never returns.
Compare_again ==
    /\ pc = "compare"
    /\ \E labels \in Orders(all_labels(Lookup(old_data), Lookup(new_data))) :
          /\ order' = labels
          /\ differences' = compare_data(old_data, new_data, labels)
    /\ pc' = "compare"
    /\ UNCHANGED <<old, new, old_data, new_data, printed, exc>>
    /\ UNCHANGED scripts

\* compare_data(old_data, new_data): the set all_labels is iterated in an order
\* the program does not control.
Compare ==
    /\ pc = "compare"
    /\ \E labels \in Orders(all_labels(Lookup(old_data), Lookup(new_data))) :
          /\ order' = labels
          /\ differences' = compare_data(old_data, new_data, labels)
    /\ pc' = "display"
    /\ UNCHANGED <<old, new, old_data, new_data, printed, exc>>
    /\ UNCHANGED scripts

\* display_comparison: differences.sort(...), in place.
DisplaySort ==
    /\ pc = "display"
    /\ differences' = SortByLabel(differences)
    /\ pc' = "print"
    /\ UNCHANGED <<old, new, old_data, new_data, order, printed, exc>>
    /\ UNCHANGED scripts

\* display_comparison: one iteration of the for loop.
DisplayPrint ==
    /\ pc = "print"
    /\ Len(printed) < Len(differences)
    /\ printed' = Append(printed, Block(differences[Len(printed) + 1]))
    /\ UNCHANGED <<old, new, pc, old_data, new_data, order, differences, exc>>
    /\ UNCHANGED scripts

\* Variant of DisplayReturn: a return inside the loop body, after the first row.
DisplayReturn_early ==
    /\ pc = "print"
    /\ Len(printed) = Len(differences) \/ Len(printed) = 1
    /\ pc' = "done"
    /\ UNCHANGED <<old, new, old_data, new_data, order, differences, printed, exc>>
    /\ UNCHANGED scripts

\* display_comparison: the for loop is exhausted.
DisplayReturn ==
    /\ pc = "print"
    /\ Len(printed) = Len(differences)
    /\ pc' = "done"
    /\ UNCHANGED <<old, new, old_data, new_data, order, differences, printed, exc>>
    /\ UNCHANGED scripts

Next ==
    \/ GetOld
    \/ GetNew
    \/ Compare
    \/ DisplaySort
    \/ DisplayPrint
    \/ DisplayReturn

\* The interpreter runs the module to its end: a step that can be taken is
\* taken.
SpecTerminating == Init /\ [][Next]_vars /\ WF_vars(Next)

SpecNonFinite == InitNonFinite /\ [][Next]_vars

SpecStability == InitStability /\ [][Next]_vars

SpecSixLabels == InitSixLabels /\ [][Next]_vars

Spec == Init /\ [][Next]_vars

----------------------------------------------------------------------------
(* src/utils/io/data/scripts/getActivityFromTransactionHistory.py, from    *)
(* line 13 on: data holds the rows of the CSV file, one dict per row keyed *)
(* by the header (AS OF DATE and SOURCE NAME 1 are the fields AS_OF_DATE   *)
(* and SOURCE_NAME_1).                                                     *)

\* Rows of the CSV file.
MaxRows == 3

\* No dataset: compareData.py does not run.
NoDataset == [labels |-> <<>>, data |-> <<>>, activity |-> <<>>]

\* "2025-01-24" and "2025-02-07".
Dates == {<<50, 48, 50, 53, 45, 48, 49, 45, 50, 52>>, <<50, 48, 50, 53, 45, 48, 50, 45, 48, 55>>}
Sources == {"Employee", "Employer"}

\* The rows: contributions of 0.5 or 1.5 shares at 0.25, rows of another
\* category, and rows whose SHARES cell is empty.
Rows ==
    [CATEGORY : {"CONTRIBUTION"}, AS_OF_DATE : Dates, SOURCE_NAME_1 : Sources,
     SHARES : {"0.5", "1.5"}, PRICE : {"0.25"}]
    \cup [CATEGORY : {"FEE"}, AS_OF_DATE : Dates, SOURCE_NAME_1 : Sources,
          SHARES : {"1.5"}, PRICE : {"0.25"}]
    \cup [CATEGORY : {"CONTRIBUTION", "FEE"}, AS_OF_DATE : {<<50, 48, 50, 53, 45, 48, 49, 45, 50, 52>>},
          SOURCE_NAME_1 : {"Employee"}, SHARES : {""}, PRICE : {"0.25"}]

\* float(text) raises ValueError.
RaisesValueError(text) == text \notin {"0.5", "1.5", "0.25"}

\* float(text) of a decimal numeral.
float(text) ==
    CASE text = "0.5" -> Float(One \div 2)
      [] text = "1.5" -> Float(3 * (One \div 2))
      [] text = "0.25" -> Float(One \div 4)

\* a * b on floats whose product is a whole number of 1/One.
FMul(a, b) == Float((a.val * b.val) \div One)

\* a + b on finite floats.
FAdd(a, b) == Float(a.val + b.val)

\* d["CATEGORY"] == "CONTRIBUTION"
IsContribution(d) == d.CATEGORY = "CONTRIBUTION"

\* The body of "for contribution in contributions" raises: a cell that float
\* does not read.
RaisesInBody(contribution) ==
    RaisesValueError(contribution.SHARES) \/ RaisesValueError(contribution.PRICE)

\* round(float(contribution["SHARES"]) * float(contribution["PRICE"]), 2)
Total(contribution) == Round2(FMul(float(contribution.SHARES), float(contribution.PRICE)))

\* The body of "for contribution in contributions" on the dict acts, kept as
\* the sequence of its items in insertion order: a new key is appended with
\* round(0 + total, 2), the total of a key already there becomes
\* round(activities[key] + total, 2) in its place.
AddContribution(acts, contribution) ==
    LET key == <<contribution.AS_OF_DATE, contribution.SOURCE_NAME_1>>
        total == Total(contribution)
    IN  IF \E i \in DOMAIN acts : acts[i].key = key
        THEN [i \in DOMAIN acts |->
                 IF acts[i].key = key
                 THEN [key |-> key, total |-> Round2(FAdd(acts[i].total, total))]
                 ELSE acts[i]]
        ELSE Append(acts, [key |-> key, total |-> Round2(FAdd(Float(0), total))])

\* The dict after the loop has taken the first n contributions.
RECURSIVE Grouped(_, _)
Grouped(list, n) ==
    IF n = 0 THEN <<>> ELSE AddContribution(Grouped(list, n - 1), list[n])

\* The contributions the loop takes before it ends or raises.
Taken(list) ==
    IF \E i \in DOMAIN list : RaisesInBody(list[i])
    THEN (CHOOSE i \in DOMAIN list :
              /\ RaisesInBody(list[i])
              /\ \A j \in 1..(i - 1) : ~RaisesInBody(list[j])) - 1
    ELSE Len(list)

\* Variant of InsertByDate: the key (date, source), compared by the date and
\* then, for the same date, by the source name.
RECURSIVE InsertByDate_then_source(_, _)
InsertByDate_then_source(activity, sorted) ==
    IF sorted = <<>> THEN <<activity>>
    ELSE IF \/ StrLess(activity.date, Head(sorted).date)
            \/ /\ activity.date = Head(sorted).date
               /\ activity.source = "Employee" /\ Head(sorted).source = "Employer"
         THEN <<activity>> \o sorted
    ELSE <<Head(sorted)>> \o InsertByDate_then_source(activity, Tail(sorted))

\* activity_list.sort(key=lambda x: x["date"]): stable, ascending on the str
\* date.  InsertByDate puts activity behind every one of the sorted list whose
\* date is not greater.
RECURSIVE InsertByDate(_, _)
InsertByDate(activity, sorted) ==
    IF sorted = <<>> THEN <<activity>>
    ELSE IF StrLess(activity.date, Head(sorted).date) THEN <<activity>> \o sorted
    ELSE <<Head(sorted)>> \o InsertByDate(activity, Tail(sorted))

RECURSIVE SortByDate(_)
SortByDate(list) ==
    IF list = <<>> THEN <<>>
    ELSE InsertByDate(list[Len(list)], SortByDate(SubSeq(list, 1, Len(list) - 1)))

\* One dict of the list comprehension "Format as activities".
Formatted(activity) ==
    [date |-> activity.date,
     dateIsVariable |-> FALSE,
     dateVariable |-> None,
     name |-> activity.source,
     amount |-> activity.total,
     category |-> "Ignore.Other",
     flag |-> FALSE,
     flagColor |-> None,
     isTransfer |-> FALSE,
     from |-> None,
     to |-> None,
     amountIsVariable |-> FALSE,
     amountVariable |-> None]

\* The script starts at line 13 with the rows read.
InitActivity ==
    /\ data \in UNION {[1..n -> Rows] : n \in 0..MaxRows}
    /\ pc = "filter"
    /\ contributions = <<>>
    /\ activities = <<>>
    /\ activity_list = <<>>
    /\ file = <<>>
    /\ exc = "none"
    /\ old = NoDataset /\ new = NoDataset
    /\ old_data = <<>> /\ new_data = <<>>
    /\ order = <<>> /\ differences = <<>> /\ printed = <<>>

\* contributions = [d for d in data if d["CATEGORY"] == "CONTRIBUTION"]
Filter ==
    /\ pc = "filter"
    /\ contributions' = SelectSeq(data, IsContribution)
    /\ pc' = "group"
    /\ UNCHANGED <<data, activities, activity_list, file, exc>>
    /\ UNCHANGED pipeline

\* activities = {} and the loop "for contribution in contributions", to its
\* end or to the contribution at which float raises.
Group ==
    /\ pc = "group"
    /\ activities' = Grouped(contributions, Taken(contributions))
    /\ IF Taken(contributions) < Len(contributions)
       THEN exc' = "ValueError" /\ pc' = "raised"
       ELSE pc' = "list" /\ UNCHANGED exc
    /\ UNCHANGED <<data, contributions, activity_list, file>>
    /\ UNCHANGED pipeline

\* activity_list = [{"date": ..., "source": ..., "total": ...} for ... in
\* activities.items()]
ToList ==
    /\ pc = "list"
    /\ activity_list' =
          [i \in DOMAIN activities |->
              [date |-> activities[i].key[1],
               source |-> activities[i].key[2],
               total |-> activities[i].total]]
    /\ pc' = "sort"
    /\ UNCHANGED <<data, contributions, activities, file, exc>>
    /\ UNCHANGED pipeline

\* activity_list.sort(key=lambda x: x["date"])
Sort ==
    /\ pc = "sort"
    /\ activity_list' = SortByDate(activity_list)
    /\ pc' = "format"
    /\ UNCHANGED <<data, contributions, activities, file, exc>>
    /\ UNCHANGED pipeline

\* activity_list = [{...} for activity in activity_list]
Format ==
    /\ pc = "format"
    /\ activity_list' = [i \in DOMAIN activity_list |-> Formatted(activity_list[i])]
    /\ pc' = "write"
    /\ UNCHANGED <<data, contributions, activities, file, exc>>
    /\ UNCHANGED pipeline

\* f.write(json.dumps(activity_list, indent=2)) into activity_list.json
Write ==
    /\ pc = "write"
    /\ file' = activity_list
    /\ pc' = "done"
    /\ UNCHANGED <<data, contributions, activities, activity_list, exc>>
    /\ UNCHANGED pipeline

NextActivity ==
    \/ Filter
    \/ Group
    \/ ToList
    \/ Sort
    \/ Format
    \/ Write

SpecActivity == InitActivity /\ [][NextActivity]_vars

----------------------------------------------------------------------------
(* src/utils/io/data/replaceSnakeWithCamel.py.  A JSON document is None, a *)
(* str [type |-> "str", val |-> its code points], a list                   *)
(* [type |-> "list", items |-> its elements] or a dict                     *)
(* [type |-> "dict", items |-> its (key, value) items in insertion order]. *)

\* Nesting depth of the document and length of a list or a dict in it.
MaxDepth == 2
MaxItems == 2

StrValue(codes) == [type |-> "str", val |-> codes]
List(items) == [type |-> "list", items |-> items]
Dict(items) == [type |-> "dict", items |-> items]

\* The keys "a_b", "aB" and "b_AB".
Keys == {<<97, 95, 98>>, <<97, 66>>, <<98, 95, 65, 66>>}

\* The values that are no containers: None and the str "a_b".
Leaves == {None, StrValue(<<97, 95, 98>>)}

\* The sequences of at most MaxItems elements of S.
UpToMaxItems(S) == UNION {[1..n -> S] : n \in 0..MaxItems}

\* The documents nested at most depth deep; the keys of a dict are distinct.
RECURSIVE Documents(_)
Documents(depth) ==
    IF depth = 0 THEN Leaves
    ELSE LET inner == Documents(depth - 1)
             items == [key : Keys, value : inner]
         IN  inner
             \cup {List(l) : l \in UpToMaxItems(inner)}
             \cup {Dict(d) : d \in {e \in UpToMaxItems(items) :
                                        \A i, j \in DOMAIN e : e[i].key = e[j].key => i = j}}

\* str.isupper / str.islower, str.upper / str.lower on one ASCII character.
IsUpper(c) == c \in 65..90
IsLower(c) == c \in 97..122
Upper(c) == IF IsLower(c) THEN c - 32 ELSE c
Lower(c) == IF IsUpper(c) THEN c + 32 ELSE c

\* x.title(): a character behind a cased one is lowered, any other is raised.
Title(x) ==
    [i \in 1..Len(x) |->
        IF i > 1 /\ (IsUpper(x[i - 1]) \/ IsLower(x[i - 1])) THEN Lower(x[i]) ELSE Upper(x[i])]

\* snake_str.split("_")
RECURSIVE Split(_)
Split(snake_str) ==
    IF \A i \in DOMAIN snake_str : snake_str[i] # 95 THEN <<snake_str>>
    ELSE LET first == CHOOSE i \in DOMAIN snake_str :
                          /\ snake_str[i] = 95
                          /\ \A j \in 1..(i - 1) : snake_str[j] # 95
         IN  <<SubSeq(snake_str, 1, first - 1)>>
             \o Split(SubSeq(snake_str, first + 1, Len(snake_str)))

\* "".join(x.title() for x in components)
RECURSIVE JoinTitles(_)
JoinTitles(components) ==
    IF components = <<>> THEN <<>>
    ELSE Title(Head(components)) \o JoinTitles(Tail(components))

snake_to_camel(snake_str) ==
    LET components == Split(snake_str)
    IN  components[1] \o JoinTitles(Tail(components))

\* new_dict[new_key] = value on the items of new_dict: the value of a key
\* already there is replaced in its place, a new key is appended.
SetItem(items, new_key, value) ==
    IF \E i \in DOMAIN items : items[i].key = new_key
    THEN [i \in DOMAIN items |->
             IF items[i].key = new_key THEN [key |-> new_key, value |-> value] ELSE items[i]]
    ELSE Append(items, [key |-> new_key, value |-> value])

RECURSIVE convert_keys(_)
\* The items of new_dict after "for key, value in obj.items()" has taken the
\* first n items.
RECURSIVE ConvertedItems(_, _)
ConvertedItems(items, n) ==
    IF n = 0 THEN <<>>
    ELSE SetItem(ConvertedItems(items, n - 1),
                 snake_to_camel(items[n].key),
                 convert_keys(items[n].value))

convert_keys(obj) ==
    IF obj.type = "dict" THEN Dict(ConvertedItems(obj.items, Len(obj.items)))
    ELSE IF obj.type = "list" THEN List([i \in DOMAIN obj.items |-> convert_keys(obj.items[i])])
    ELSE obj

\* The script starts with a document in FILE.
InitConvert ==
    /\ file \in Documents(MaxDepth)
    /\ pc = "load"
    /\ data = <<>>
    /\ contributions = <<>>
    /\ activities = <<>>
    /\ activity_list = <<>>
    /\ exc = "none"
    /\ old = NoDataset /\ new = NoDataset
    /\ old_data = <<>> /\ new_data = <<>>
    /\ order = <<>> /\ differences = <<>> /\ printed = <<>>

\* data = json.load(f)
Load ==
    /\ pc = "load"
    /\ data' = file
    /\ pc' = "convert"
    /\ UNCHANGED <<contributions, activities, activity_list, file, exc>>
    /\ UNCHANGED pipeline

\* data = convert_keys(data)
Convert ==
    /\ pc = "convert"
    /\ data' = convert_keys(data)
    /\ pc' = "dump"
    /\ UNCHANGED <<contributions, activities, activity_list, file, exc>>
    /\ UNCHANGED pipeline

\* json.dump(data, f, indent=4) into FILE
Dump ==
    /\ pc = "dump"
    /\ file' = data
    /\ pc' = "done"
    /\ UNCHANGED <<data, contributions, activities, activity_list, exc>>
    /\ UNCHANGED pipeline

NextConvert ==
    \/ Load
    \/ Convert
    \/ Dump

SpecConvert == InitConvert /\ [][NextConvert]_vars

----------------------------------------------------------------------------
(* What the claims speak of, read off the input datasets.                  *)

\* compare_data has returned.
Compared == pc \in {"display", "print", "done"}

LabelsOf(dataset) == {dataset.labels[i] : i \in DOMAIN dataset.labels}

\* The indices at which the dataset records the label.
IndicesOf(dataset, label) == {i \in DOMAIN dataset.labels : dataset.labels[i] = label}

RowLabels == {differences[i].label : i \in DOMAIN differences}
PrintedLabels == {printed[i].label : i \in DOMAIN printed}

\* r is x rounded to 2 decimals: a whole number of hundredths, nearest to x,
\* the even one if x is halfway between two.
IsRounded2(r, x) ==
    /\ r.type = "float"
    /\ r.val % Quantum = 0
    /\ 2 * Abs(r.val - x.val) <= Quantum
    /\ 2 * Abs(r.val - x.val) = Quantum => (r.val \div Quantum) % 2 = 0

----------------------------------------------------------------------------
(* The claims.                                                             *)

\* C1: completeness.  The labels of the rows compare_data returns, and the
\* labels display_comparison has printed when it returns, are exactly the
\* labels of the old dataset together with those of the new one.
C1_Completeness ==
    /\ Compared => RowLabels = LabelsOf(old) \cup LabelsOf(new)
    /\ pc = "done" => PrintedLabels = LabelsOf(old) \cup LabelsOf(new)

\* A finished run in which each dataset has a label the other lacks.
C1_Witness ==
    /\ pc = "done"
    /\ LabelsOf(old) \ LabelsOf(new) # {}
    /\ LabelsOf(new) \ LabelsOf(old) # {}

\* C2: in every row, diff is non-null exactly when the row's label is a label
\* of both datasets.
C2_DiffIffBoth ==
    Compared =>
        \A i \in DOMAIN differences :
            differences[i].diff # None
                <=> differences[i].label \in LabelsOf(old) \cap LabelsOf(new)

\* A finished run with a row whose diff is a non-zero number.
C2_Witness ==
    /\ pc = "done"
    /\ \E i \in DOMAIN differences :
          /\ differences[i].diff # None
          /\ differences[i].diff.val # 0

\* C3: for a label of both datasets, diff is the new dataset's value at the
\* label minus the old dataset's value at the label, subtracted on the input
\* values and then rounded to 2 decimals.
C3_DiffNewMinusOld ==
    Compared =>
        \A i \in DOMAIN differences :
            LET row == differences[i]
            IN  row.label \in LabelsOf(old) \cap LabelsOf(new) =>
                    \E o \in IndicesOf(old, row.label), n \in IndicesOf(new, row.label) :
                        IsRounded2(row.diff, Float(new.data[n].val - old.data[o].val))

\* A finished run with a row whose diff, 0.38, is not the difference 0.37 of
\* the rounded values 0.12 and -0.25.
C3_Witness ==
    /\ pc = "done"
    /\ \E i \in DOMAIN differences :
          /\ differences[i].diff # None
          /\ differences[i].diff.val > 0
          /\ differences[i].diff.val
                # differences[i].new_value.val - differences[i].old_value.val

\* C4: a row's old_value is the value the old dataset records at an index
\* that carries the row's label, rounded to 2 decimals, and likewise its
\* new_value for the new dataset; a one-record dataset compared with itself
\* gives one row whose old_value and new_value are the record's (rounded)
\* value and whose diff is 0.0.
C4_ValueOfSameLabel ==
    /\ Compared =>
          \A i \in DOMAIN differences :
              LET row == differences[i]
              IN  /\ row.label \in LabelsOf(old) =>
                        \E o \in IndicesOf(old, row.label) :
                            IsRounded2(row.old_value, old.data[o])
                  /\ row.label \in LabelsOf(new) =>
                        \E n \in IndicesOf(new, row.label) :
                            IsRounded2(row.new_value, new.data[n])
    /\ Compared /\ old = new /\ Len(old.labels) = 1 =>
          /\ Len(differences) = 1
          /\ differences[1].label = old.labels[1]
          /\ IsRounded2(differences[1].old_value, old.data[1])
          /\ old.data[1].val % Quantum = 0 => differences[1].old_value = old.data[1]
          /\ differences[1].new_value = differences[1].old_value
          /\ differences[1].diff = Float(0)

\* A finished run on an old dataset of two labels whose values round to
\* different hundredths.
C4_Witness ==
    /\ pc = "done"
    /\ Len(old.labels) = 2
    /\ old.labels[1] # old.labels[2]
    /\ \E i, j \in DOMAIN differences :
          /\ differences[i].old_value # None
          /\ differences[j].old_value # None
          /\ differences[i].old_value # differences[j].old_value

\* C5: a label of only one dataset raises nothing (the run ends in an
\* exception only if a dataset has fewer data or activity cells than labels,
\* and compare_data runs to its end), and its row has null for the absent
\* side's value, the present side's rounded value, and a null diff.
C5_OneSidedLabel ==
    /\ pc = "raised" =>
          \E d \in {old, new} :
              Len(d.data) < Len(d.labels) \/ Len(d.activity) < Len(d.labels)
    /\ pc = "compare" => ENABLED Compare
    /\ Compared =>
          \A i \in DOMAIN differences :
              LET row == differences[i]
              IN  /\ row.label \notin LabelsOf(old) =>
                        /\ row.old_value = None
                        /\ row.diff = None
                        /\ \E n \in IndicesOf(new, row.label) :
                              IsRounded2(row.new_value, new.data[n])
                  /\ row.label \notin LabelsOf(new) =>
                        /\ row.new_value = None
                        /\ row.diff = None
                        /\ \E o \in IndicesOf(old, row.label) :
                              IsRounded2(row.old_value, old.data[o])

\* A finished run with a row for a label the old dataset lacks.
C5_Witness ==
    /\ pc = "done"
    /\ \E i \in DOMAIN differences :
          /\ differences[i].label \notin LabelsOf(old)
          /\ differences[i].old_value = None
          /\ differences[i].new_value # None

\* C6: if the two datasets have no label in common, every row has a null diff.
C6_DisjointNullDiff ==
    Compared /\ LabelsOf(old) \cap LabelsOf(new) = {} =>
        \A i \in DOMAIN differences : differences[i].diff = None

\* A finished run on two non-empty datasets without a common label.
C6_Witness ==
    /\ pc = "done"
    /\ LabelsOf(old) # {}
    /\ LabelsOf(new) # {}
    /\ LabelsOf(old) \cap LabelsOf(new) = {}

\* C7: a dataset compared with itself gives diff = 0.0 and equal activity
\* lists in every row.
C7_SelfCompare ==
    Compared /\ old = new =>
        \A i \in DOMAIN differences :
            /\ differences[i].diff = Float(0)
            /\ differences[i].old_activity = differences[i].new_activity

\* A finished run of a non-empty dataset against itself, with activity.
C7_Witness ==
    /\ pc = "done"
    /\ old = new
    /\ \E i \in DOMAIN differences : differences[i].old_activity # <<>>

\* C8: swap symmetry.  For every row, the row compare_data builds for the
\* same label from the datasets exchanged has the old and new values and the
\* old and new activity lists exchanged, a null diff if the row's diff is null,
\* and otherwise the exact negation of the row's diff.
C8_SwapSymmetry ==
    Compared =>
        LET swapped == compare_data(get_data_and_labels(new), get_data_and_labels(old), order)
        IN  /\ {swapped[i].label : i \in DOMAIN swapped} = RowLabels
            /\ \A i \in DOMAIN differences : \A j \in DOMAIN swapped :
                  LET r == differences[i]
                      s == swapped[j]
                  IN  r.label = s.label =>
                          /\ s.old_value = r.new_value
                          /\ s.new_value = r.old_value
                          /\ s.old_activity = r.new_activity
                          /\ s.new_activity = r.old_activity
                          /\ r.diff = None <=> s.diff = None
                          /\ r.diff # None => s.diff.val = 0 - r.diff.val

\* A finished run with a row whose diff, -0.38, is rounded from the tie
\* -0.375 = -0.25 - 0.125.
C8_Witness ==
    /\ pc = "done"
    /\ \E i \in DOMAIN differences :
          /\ differences[i].diff # None
          /\ differences[i].diff.val < 0
          /\ \E o \in IndicesOf(old, differences[i].label) :
             \E n \in IndicesOf(new, differences[i].label) :
                2 * ((old.data[o].val - new.data[n].val) % Quantum) = Quantum

\* C9: display_comparison prints the rows in ascending order of label, as str
\* are compared: of two consecutive blocks, the second's label is not less
\* than the first's.
C9_PrintedAscending ==
    \A i \in DOMAIN printed : \A j \in DOMAIN printed :
        j = i + 1 => ~StrLess(printed[j].label, printed[i].label)

\* A finished run that printed "10" and then "9".
C9_Witness ==
    /\ pc = "done"
    /\ Len(printed) = 2
    /\ printed[1].label = <<49, 48>>
    /\ printed[2].label = <<57>>

\* C10: determinism.  What display_comparison has printed when it returns is
\* what it prints for the list compare_data builds in any other iteration
\* order of the union of the labels.
C10_OrderIndependent ==
    pc = "done" =>
        \A o \in Orders(LabelsOf(old) \cup LabelsOf(new)) :
            printed = display_comparison(compare_data(old_data, new_data, o))

\* A finished run in which compare_data took two labels in descending order.
C10_Witness ==
    /\ pc = "done"
    /\ Len(order) = 2
    /\ StrLess(order[2], order[1])

\* What str gives for 0.0.
ZeroText == [text |-> "float", sign |-> 1, whole |-> 0, frac |-> 0]

\* C11: a label missing on one side is never reported like an unchanged one.
\* In a row, and in the block printed for it, the value of the absent side
\* and the diff are None, which is neither the float 0.0 nor printed as 0.0
\* is; and a diff of 0.0, in a row or printed, has its label in both datasets.
C11_MissingIsNotZero ==
    /\ Compared =>
          \A i \in DOMAIN differences :
              LET row == differences[i]
              IN  /\ row.label \notin LabelsOf(old) =>
                        /\ row.old_value = None /\ row.old_value # Float(0)
                        /\ row.diff = None /\ row.diff # Float(0)
                  /\ row.label \notin LabelsOf(new) =>
                        /\ row.new_value = None /\ row.new_value # Float(0)
                        /\ row.diff = None /\ row.diff # Float(0)
                  /\ row.diff = Float(0) => row.label \in LabelsOf(old) \cap LabelsOf(new)
    /\ \A i \in DOMAIN printed :
          LET block == printed[i]
          IN  /\ block.label \notin LabelsOf(old) =>
                    /\ block.old_value.text = "None" /\ block.old_value # ZeroText
                    /\ block.diff.text = "None" /\ block.diff # ZeroText
              /\ block.label \notin LabelsOf(new) =>
                    /\ block.new_value.text = "None" /\ block.new_value # ZeroText
                    /\ block.diff.text = "None" /\ block.diff # ZeroText
              /\ block.diff = ZeroText => block.label \in LabelsOf(old) \cap LabelsOf(new)

\* A finished run that printed a block for a label the new dataset lacks.
C11_Witness ==
    /\ pc = "done"
    /\ \E i \in DOMAIN printed :
          /\ printed[i].label \notin LabelsOf(new)
          /\ printed[i].old_value.text = "float"
          /\ printed[i].diff.text = "None"

\* The three arrays of the dataset do not all have the same length.
Mismatched(dataset) ==
    \/ Len(dataset.data) # Len(dataset.labels)
    \/ Len(dataset.activity) # Len(dataset.labels)

\* get_data_and_labels(old), respectively get_data_and_labels(new), is over.
OldFlattened == pc # "get_old"
NewFlattened == pc \notin {"get_old", "get_new"}

\* C12: a dataset whose labels, data and activity arrays do not all have the
\* same length makes the run fail in get_data_and_labels, whichever array is
\* the longer one.  (The claim names the error StructuralError; the formula
\* asks only for an exception, of any type.)
C12_MismatchRaises ==
    /\ OldFlattened /\ Mismatched(old) => pc = "raised" /\ exc # "none"
    /\ NewFlattened /\ Mismatched(new) => pc = "raised" /\ exc # "none"

\* C13: a dataset of six labels and five values raises StructuralError in
\* get_data_and_labels and no row is printed.
C13_SixLabelsFiveValues ==
    /\ OldFlattened /\ Len(old.labels) = SixLabels /\ Len(old.data) = FiveValues =>
          pc = "raised" /\ exc = "StructuralError" /\ printed = <<>>
    /\ NewFlattened /\ Len(new.labels) = SixLabels /\ Len(new.data) = FiveValues =>
          pc = "raised" /\ exc = "StructuralError" /\ printed = <<>>

\* The dataset has the same label at two indices.
HasDuplicateLabel(dataset) ==
    \E i, j \in DOMAIN dataset.labels : i # j /\ dataset.labels[i] = dataset.labels[j]

\* C14: a dataset with the same label at two indices makes the run fail: the
\* two records are never merged into one lookup entry, so compare_data never
\* returns rows for such a dataset.  (The claim names the error
\* StructuralError; the formula asks only that the run does not go on.)
C14_DuplicateRaises ==
    HasDuplicateLabel(old) \/ HasDuplicateLabel(new) => ~Compared

\* The dataset has, at the index of a label, a value that is inf, -inf or nan.
HasNonFinite(dataset) ==
    \E i \in DOMAIN dataset.data \cap DOMAIN dataset.labels : ~IsFinite(dataset.data[i])

\* x is None or a finite float.
NoneOrFinite(x) == x = None \/ IsFinite(x)

\* C15: a dataset with a non-finite value makes the run fail, so that
\* compare_data returns no rows for it, and no row ever has a non-finite
\* old_value, new_value or diff.  (The claim names the error StructuralError;
\* the formula asks only that the run does not go on.)
C15_NonFiniteRaises ==
    /\ HasNonFinite(old) \/ HasNonFinite(new) => ~Compared
    /\ \A i \in DOMAIN differences :
          /\ NoneOrFinite(differences[i].old_value)
          /\ NoneOrFinite(differences[i].new_value)
          /\ NoneOrFinite(differences[i].diff)

\* C16: no partial results.  A run that has printed a row has raised nothing
\* and is still printing or has printed all; a run that raised has printed
\* nothing; while rows remain the next one can be printed; and a finished run
\* has printed one block for every label of the union.
C16_NoPartialReport ==
    /\ printed # <<>> => exc = "none" /\ pc \in {"print", "done"}
    /\ pc = "raised" => exc # "none" /\ printed = <<>>
    /\ pc = "print" /\ Len(printed) < Len(differences) => ENABLED DisplayPrint
    /\ pc = "done" =>
          /\ PrintedLabels = LabelsOf(old) \cup LabelsOf(new)
          /\ Len(printed) = Cardinality(LabelsOf(old) \cup LabelsOf(new))

\* A run that has printed the first of two rows.
C16_Witness ==
    /\ pc = "print"
    /\ Len(printed) = 1
    /\ Len(differences) = 2

\* C17: rounding stability.  A label whose value is 4605.79 in one dataset
\* and the value just below it in the other (or the same in both) has
\* old_value = new_value = 4605.79 and diff = 0.0.
C17_RoundingStability ==
    Compared =>
        \A i \in DOMAIN differences :
            LET row == differences[i]
            IN  /\ row.label \in LabelsOf(old) \cap LabelsOf(new)
                /\ \A o \in IndicesOf(old, row.label) : old.data[o] \in StabilityValues
                /\ \A n \in IndicesOf(new, row.label) : new.data[n] \in StabilityValues
                => /\ row.old_value = Stable
                   /\ row.new_value = Stable
                   /\ row.diff = Float(0)

\* A finished run on the lower value in the old dataset and 4605.79 in the
\* new one, at the same label.
C17_Witness ==
    /\ pc = "done"
    /\ Len(old.labels) = 1 /\ Len(new.labels) = 1
    /\ old.labels[1] = new.labels[1]
    /\ old.data[1] = NearStable
    /\ new.data[1] = Stable

\* x is None or a whole number of hundredths.
NoneOrHundredths(x) == x = None \/ (x.type = "float" /\ x.val % Quantum = 0)

\* C18: every non-null old_value, new_value and diff of a row is a whole
\* number of hundredths, and one rule, nearest hundredth with a tie to the
\* even one, gives all three from the input values they are rounded from.
C18_TwoDecimals ==
    Compared =>
        \A i \in DOMAIN differences :
            LET row == differences[i]
            IN  /\ NoneOrHundredths(row.old_value)
                /\ NoneOrHundredths(row.new_value)
                /\ NoneOrHundredths(row.diff)
                /\ row.old_value # None =>
                      \E o \in IndicesOf(old, row.label) : IsRounded2(row.old_value, old.data[o])
                /\ row.new_value # None =>
                      \E n \in IndicesOf(new, row.label) : IsRounded2(row.new_value, new.data[n])
                /\ row.diff # None =>
                      \E o \in IndicesOf(old, row.label), n \in IndicesOf(new, row.label) :
                          /\ IsRounded2(row.old_value, old.data[o])
                          /\ IsRounded2(row.new_value, new.data[n])
                          /\ IsRounded2(row.diff, Float(new.data[n].val - old.data[o].val))

\* A finished run with a row whose old value 0.125 and whose difference
\* -0.375 are both ties, reported as 0.12 and -0.38.
C18_Witness ==
    /\ pc = "done"
    /\ Len(old.labels) = 1 /\ Len(new.labels) = 1
    /\ old.data[1] = Dyadic(32)
    /\ new.data[1] = Dyadic(-64)
    /\ \E i \in DOMAIN differences :
          /\ differences[i].old_value = Float(12 * Quantum)
          /\ differences[i].diff = Float((0 - 38) * Quantum)

\* C19: the activity lists pass through unmodified.  The old_activity of a
\* row whose label the old dataset has is the activity list the old dataset
\* holds at an index of that label, entry for entry, in the same order, with
\* the same names and the amounts unrounded; likewise new_activity; and the
\* printed block of a row carries the row's two lists as they are.
C19_ActivityPassThrough ==
    /\ Compared =>
          \A i \in DOMAIN differences :
              LET row == differences[i]
              IN  /\ row.label \in LabelsOf(old) =>
                        \E o \in IndicesOf(old, row.label) : row.old_activity = old.activity[o]
                  /\ row.label \in LabelsOf(new) =>
                        \E n \in IndicesOf(new, row.label) : row.new_activity = new.activity[n]
    /\ pc = "done" =>
          \A j \in DOMAIN printed :
              \E i \in DOMAIN differences :
                  /\ printed[j].label = differences[i].label
                  /\ printed[j].old_activity = differences[i].old_activity
                  /\ printed[j].new_activity = differences[i].new_activity

\* A finished run that printed, for a label only the new dataset has, the two
\* entries Nearpod and Backblaze in that order with their unrounded amounts.
C19_Witness ==
    /\ pc = "done"
    /\ \E j \in DOMAIN printed :
          /\ printed[j].label \notin LabelsOf(old)
          /\ printed[j].new_activity = <<Nearpod, Backblaze>>
          /\ printed[j].old_activity = <<>>

\* The dataset is well formed: its three arrays have the same length and no
\* label occurs twice.
WellFormed(dataset) == ~Mismatched(dataset) /\ ~HasDuplicateLabel(dataset)

\* data is what get_data_and_labels owes for a dataset of N labels: N records,
\* record i made of labels[i], data[i] and activity[i], and a keyed lookup of
\* N entries.
FlattenedAs(records, dataset) ==
    /\ Len(records) = Len(dataset.labels)
    /\ \A i \in DOMAIN records :
          records[i] = [label |-> dataset.labels[i],
                        value |-> dataset.data[i],
                        activity |-> dataset.activity[i]]
    /\ Cardinality(DOMAIN Lookup(records)) = Len(dataset.labels)

\* C20: for a well-formed dataset with N labels, get_data_and_labels returns
\* exactly N records, record i holding labels[i], data[i] and activity[i] of
\* the same index i, in label order, and the keyed lookup compare_data builds
\* from them has exactly N entries.
C20_FlattenWellFormed ==
    /\ (pc \in {"get_new", "compare", "display", "print", "done"} /\ WellFormed(old)) =>
          FlattenedAs(old_data, old)
    /\ (pc \in {"compare", "display", "print", "done"} /\ WellFormed(new)) =>
          FlattenedAs(new_data, new)

\* A finished run over a well-formed old dataset of two labels with two
\* different values, flattened to two records and keyed to two entries.
C20_Witness ==
    /\ pc = "done"
    /\ WellFormed(old)
    /\ Len(old.labels) = 2
    /\ old.data[1] # old.data[2]
    /\ Len(old_data) = 2
    /\ Cardinality(DOMAIN Lookup(old_data)) = 2

\* get_data_and_labels has returned for both datasets: compare_data is being
\* entered, is running or has returned.
BothFlattened == pc \in {"compare", "display", "print", "done"}

\* C21: every input-shape violation is detected while flattening, before
\* compare_data starts: whenever both get_data_and_labels calls have returned
\* and compare_data is entered, both datasets have three arrays of the same
\* length, no repeated label and no non-finite value.
C21_EagerDetection ==
    BothFlattened =>
        /\ WellFormed(old) /\ ~HasNonFinite(old)
        /\ WellFormed(new) /\ ~HasNonFinite(new)

\* C22: get_data_and_labels and compare_data are pure with respect to their
\* inputs.  No step of either changes the dataset old or new; the list
\* old_data, once returned, is changed neither by get_data_and_labels(new)
\* nor by compare_data; and compare_data does not change new_data.
C22_Pure ==
    [][/\ pc \in {"get_old", "get_new", "compare"} => old' = old /\ new' = new
       /\ pc \in {"get_new", "compare"} => old_data' = old_data
       /\ pc = "compare" => new_data' = new_data]_vars

\* compare_data has just returned rows for two non-empty lists of records,
\* one of them with a value that is not a whole number of hundredths, and
\* both lists still are what get_data_and_labels makes of the datasets.
C22_Witness ==
    /\ pc = "display"
    /\ differences # <<>>
    /\ old_data # <<>> /\ new_data # <<>>
    /\ old_data[1].value.val % Quantum # 0
    /\ old_data = get_data_and_labels(old)
    /\ new_data = get_data_and_labels(new)

\* C23: the list of rows compare_data returned is immutable: once
\* display_comparison has sorted and while it prints and after it returns, the
\* list it was given still holds the rows compare_data built, each in the
\* position compare_data gave it.
C23_RowsImmutable ==
    pc \in {"print", "done"} => differences = compare_data(old_data, new_data, order)

\* The run is over: every row has been printed, or an exception ended it.
Terminated == pc \in {"done", "raised"}

\* The sequence has no element twice.
NoRepeat(seq) == \A i, j \in DOMAIN seq : seq[i] = seq[j] => i = j

\* C24: the pipeline is a single pass that always terminates.  Every run
\* eventually reaches the state where all rows have been printed or the state
\* where an exception ended it; compare_data visits each label of the union
\* exactly once; and display_comparison prints each label of the union exactly
\* once, never one twice on the way.
C24_SinglePassTerminates ==
    /\ <>Terminated
    /\ [](Compared =>
            /\ NoRepeat(order)
            /\ {order[i] : i \in DOMAIN order} = LabelsOf(old) \cup LabelsOf(new)
            /\ Len(differences) = Len(order))
    /\ [](NoRepeat([i \in DOMAIN printed |-> printed[i].label]))
    /\ [](pc = "done" =>
            /\ PrintedLabels = LabelsOf(old) \cup LabelsOf(new)
            /\ Len(printed) = Len(order))

\* A finished run that visited two labels and printed two blocks.
C24_Witness ==
    /\ pc = "done"
    /\ Len(order) = 2
    /\ Len(printed) = 2
    /\ printed[1].label # printed[2].label

\* C25: the report has exactly one row per distinct label.  No two rows
\* compare_data returned carry the same label, and the number of rows is the
\* size of the union of the two label sets, also when a label occurs twice in
\* one dataset.
C25_OneRowPerLabel ==
    Compared =>
        /\ NoRepeat([i \in DOMAIN differences |-> differences[i].label])
        /\ Len(differences) = Cardinality(LabelsOf(old) \cup LabelsOf(new))

\* compare_data has returned one row for a label that the old dataset has at
\* two indices.
C25_Witness ==
    /\ Compared
    /\ Len(differences) = 1
    /\ HasDuplicateLabel(old)

\* The highest index at which the dataset records the label.
LastIndexOf(dataset, label) ==
    CHOOSE i \in IndicesOf(dataset, label) : \A j \in IndicesOf(dataset, label) : j <= i

\* C26: last occurrence wins.  A label at several indices of one dataset does
\* not make the run fail (only an array shorter than labels does), and the row
\* of a label has, on each side that records it, the value, rounded, and the
\* activity list found at the highest index of the label in that dataset,
\* both from that same index.
C26_LastOccurrenceWins ==
    /\ pc = "raised" => RaisesIndexError(old) \/ RaisesIndexError(new)
    /\ Compared =>
          \A i \in DOMAIN differences :
              LET row == differences[i]
              IN  /\ row.label \in LabelsOf(old) =>
                        LET o == LastIndexOf(old, row.label)
                        IN  /\ row.old_value = Round2(old.data[o])
                            /\ row.old_activity = old.activity[o]
                  /\ row.label \in LabelsOf(new) =>
                        LET n == LastIndexOf(new, row.label)
                        IN  /\ row.new_value = Round2(new.data[n])
                            /\ row.new_activity = new.activity[n]

\* A finished run over an old dataset with one label at two indices, with two
\* different values and two different activity lists, whose row has the second
\* value and the second list.
C26_Witness ==
    /\ pc = "done"
    /\ Len(old.labels) = 2
    /\ old.labels[1] = old.labels[2]
    /\ Round2(old.data[1]) # Round2(old.data[2])
    /\ old.activity[1] # old.activity[2]
    /\ Len(differences) = 1
    /\ differences[1].old_value = Round2(old.data[2])
    /\ differences[1].old_activity = old.activity[2]

C28_AbsentSideEmpty ==
    Compared =>
        \A i \in DOMAIN differences :
            LET row == differences[i]
            IN  /\ row.label \notin LabelsOf(old) =>
                      row.old_activity = <<>> /\ row.old_value = None
                /\ row.label \notin LabelsOf(new) =>
                      row.new_activity = <<>> /\ row.new_value = None
                /\ row.label \in LabelsOf(old) =>
                      /\ row.old_value # None
                      /\ row.old_activity = old.activity[LastIndexOf(old, row.label)]
                /\ row.label \in LabelsOf(new) =>
                      /\ row.new_value # None
                      /\ row.new_activity = new.activity[LastIndexOf(new, row.label)]

\* Two rows of a finished run with an empty old_activity: one for a label the
\* old dataset lacks, one for a label it has with an empty activity list.
C28_Witness ==
    /\ pc = "done"
    /\ \E i, j \in DOMAIN differences :
          /\ differences[i].old_activity = <<>> /\ differences[i].old_value = None
          /\ differences[i].new_activity # <<>>
          /\ differences[j].old_activity = <<>> /\ differences[j].old_value # None

\* The (AS OF DATE, SOURCE NAME 1) pair of row i of data, and the indices of
\* the rows of category CONTRIBUTION with the pair key.
PairOf(i) == <<data[i].AS_OF_DATE, data[i].SOURCE_NAME_1>>
ContributionIndices(key) ==
    {i \in DOMAIN data : data[i].CATEGORY = "CONTRIBUTION" /\ PairOf(i) = key}
ContributionPairs ==
    {PairOf(i) : i \in {j \in DOMAIN data : data[j].CATEGORY = "CONTRIBUTION"}}

\* The sum, in units of 1/One, of SHARES times PRICE rounded to 2 decimals
\* over the CONTRIBUTION rows with the pair key among the first n rows.
RECURSIVE SumOfTotals(_, _)
SumOfTotals(key, n) ==
    IF n = 0 THEN 0
    ELSE SumOfTotals(key, n - 1)
         + (IF n \in ContributionIndices(key)
            THEN Round2(FMul(float(data[n].SHARES), float(data[n].PRICE))).val
            ELSE 0)

\* The first row of category CONTRIBUTION with the pair key.
FirstAppearance(key) ==
    CHOOSE i \in ContributionIndices(key) : \A j \in ContributionIndices(key) : i <= j

\* C29: the activity list getActivityFromTransactionHistory writes has exactly
\* one entry per distinct (AS OF DATE, SOURCE NAME 1) pair among the rows of
\* category CONTRIBUTION; the amount of an entry is the sum of SHARES times
\* PRICE, each product rounded to 2 decimals, over the CONTRIBUTION rows of
\* its pair; the rows of another category add no entry and change no amount;
\* and the entries are in ascending order of the date (a str), entries of the
\* same date in the order in which their pairs first appear in the input.
C29_ActivityPerPair ==
    pc \in {"write", "done"} =>
        /\ Len(activity_list) = Cardinality(ContributionPairs)
        /\ {<<activity_list[i].date, activity_list[i].name>> : i \in DOMAIN activity_list}
              = ContributionPairs
        /\ \A i \in DOMAIN activity_list :
              activity_list[i].amount
                  = Float(SumOfTotals(<<activity_list[i].date, activity_list[i].name>>, Len(data)))
        /\ \A i, j \in DOMAIN activity_list :
              i < j =>
                  /\ ~StrLess(activity_list[j].date, activity_list[i].date)
                  /\ activity_list[i].date = activity_list[j].date =>
                        FirstAppearance(<<activity_list[i].date, activity_list[i].name>>)
                            < FirstAppearance(<<activity_list[j].date, activity_list[j].name>>)
        /\ pc = "done" => file = activity_list

\* A finished run over three contributions, two of 0.125 to the same pair
\* and then one of an earlier date, that wrote the entry of the earlier date
\* first and the entry 0.24 of the pair behind it.
C29_Witness ==
    /\ pc = "done"
    /\ Len(data) = 3
    /\ PairOf(1) = PairOf(2)
    /\ StrLess(data[3].AS_OF_DATE, data[1].AS_OF_DATE)
    /\ Len(file) = 2
    /\ file[1].date = data[3].AS_OF_DATE
    /\ file[2].amount = Float(24 * Quantum)

\* y is x with nothing but dictionary keys changed: a value that is no
\* container is the same, a list has the same length with its elements in the
\* same places, and a dict has the same number of items, item by item the key
\* converted and the value with nothing but keys changed.
RECURSIVE OnlyKeysChanged(_, _)
OnlyKeysChanged(x, y) ==
    IF x.type \in {"list", "dict"}
    THEN /\ y.type = x.type
         /\ Len(y.items) = Len(x.items)
         /\ \A i \in DOMAIN x.items :
               IF x.type = "list"
               THEN OnlyKeysChanged(x.items[i], y.items[i])
               ELSE /\ y.items[i].key = snake_to_camel(x.items[i].key)
                    /\ OnlyKeysChanged(x.items[i].value, y.items[i].value)
    ELSE y = x

\* No key of a dict anywhere in x has an underscore.
RECURSIVE NoUnderscoreKey(_)
NoUnderscoreKey(x) ==
    IF x.type = "list" THEN \A i \in DOMAIN x.items : NoUnderscoreKey(x.items[i])
    ELSE IF x.type = "dict"
    THEN \A i \in DOMAIN x.items :
            /\ \A k \in DOMAIN x.items[i].key : x.items[i].key[k] # 95
            /\ NoUnderscoreKey(x.items[i].value)
    ELSE TRUE

\* C30: convert_keys changes only dictionary keys.  With data the result of
\* convert_keys on the document of FILE: lists keep their length and element
\* order, values that are no containers are unchanged, the nesting is
\* preserved, no key of the result has an underscore, and converting the
\* result again changes nothing.
C30_OnlyKeysChanged ==
    pc = "dump" =>
        /\ OnlyKeysChanged(file, data)
        /\ NoUnderscoreKey(data)
        /\ convert_keys(data) = data

====
